---- MODULE Spec2Model ----
(***************************************************************************)
(* Model of cubeb's logging core (src/src/cubeb_log.cpp): the global log   *)
(* level and callback, cubeb_log_set, the asynchronous logger singleton    *)
(* (queue, shutdown flag, drain thread), its producers and its drain loop. *)
(* One control thread calls cubeb_log_set; producers call cubeb_async_log; *)
(* the drain thread runs the loop of cubeb_async_logger::run.              *)
(***************************************************************************)
EXTENDS Integers, Sequences, FiniteSets, TLC

(* ------------------------------------------------------------------ *)
(* Program constants                                                   *)
(* ------------------------------------------------------------------ *)
CUBEB_LOG_MESSAGE_MAX_SIZE == 256
CUBEB_LOG_MESSAGE_QUEUE_DEPTH == 40
\* cubeb_log_level enumerators (include/cubeb/cubeb.h)
CUBEB_LOG_DISABLED == 0
CUBEB_LOG_NORMAL == 1

nullptr == "nullptr"
cubeb_noop_log_callback == "cubeb_noop_log_callback"

(* ------------------------------------------------------------------ *)
(* Bounds of the model                                                 *)
(* ------------------------------------------------------------------ *)
\* number of cubeb_log_set calls made by the control thread
MaxSet == 3
\* number of cubeb_async_log calls made by the producers (Spec)
MaxPush == 2
\* number of cubeb_async_log calls of the burst scenario (SpecBurst)
MaxBurst == 42
\* number of cubeb_async_log calls of the concurrent scenario (SpecConc)
MaxConcPush == 4
\* number of push() calls of the message scenario (SpecMsg)
MaxMsgPush == 2
\* number of distinct characters of the texts of the message scenario
MaxChar == 2

Producers == {1, 2}
Callbacks == {"cb1", "cb2"}
Levels == {CUBEB_LOG_DISABLED, CUBEB_LOG_NORMAL}
Texts == {<<>>, <<1, 2>>}
BurstText == <<7>>
\* the text of n characters c
Fill(n, c) == [i \in 1..n |-> c]
\* lengths around the capacity of a message, and the texts of these lengths
MsgLengths ==
  {0, 1, CUBEB_LOG_MESSAGE_MAX_SIZE - 2, CUBEB_LOG_MESSAGE_MAX_SIZE - 1,
   CUBEB_LOG_MESSAGE_MAX_SIZE, CUBEB_LOG_MESSAGE_MAX_SIZE + 1}
MsgInputs == {Fill(n, c) : n \in MsgLengths, c \in 1..MaxChar}
\* what an uninitialized storage buffer may read as
UninitStorage == {<<>>, <<9>>}

VARIABLES
  ndebug,               \* TRUE: built with NDEBUG (assert compiled out)
  g_cubeb_log_level,
  g_cubeb_log_callback,
  msg_queue,            \* 0: nullptr; n > 0: the n-th queue allocated
  queue,                \* content of the queue msg_queue points to
  shutdown_thread,
  logging_thread,       \* TRUE: logging_thread is joinable
  drain_pc,             \* position of the drain thread
  drain_msg,            \* the drain thread's local msg
  ctl_pc,               \* position of the control thread in cubeb_log_set
  ctl_cb,               \* the log_callback argument of the call in progress
  prod_pc,              \* position of each producer in cubeb_async_log
  prod_msg,
  prod_q,               \* the queue pointer a producer has loaded
  fault,                \* "none", or how the process died
  drain2_pc,            \* position of the thread a second run() has started
  drain2_msg,           \* that thread's local msg
  get_pc,               \* position of the reader in cubeb_log_get_callback
  get_first,            \* the value its first load of the callback gave
  get_result,           \* what its last call returned ("none": no call yet)
  \* history
  sets,                 \* cubeb_log_set calls made
  pushes,               \* cubeb_async_log calls counted
  qgen,                 \* queues allocated so far
  at_stop,              \* ids queued when the stop() in progress was called
  forwarded,            \* those of at_stop the callback has been invoked with
  purged,               \* those of at_stop purge_queue has discarded
  dequeued_any,         \* the drain thread of this run has dequeued something
  early_delivered,      \* deliveries of this queue's messages queued before any dequeue
  invoked,              \* the drain thread's last invocation of the callback
  delivered             \* ids of the producer-tagged messages delivered, in order

prog_vars == <<ndebug, g_cubeb_log_level, g_cubeb_log_callback, msg_queue, queue,
               shutdown_thread, logging_thread, drain_pc, drain_msg, ctl_pc,
               ctl_cb, prod_pc, prod_msg, prod_q, fault>>
hist_vars == <<sets, pushes, qgen, at_stop, forwarded, purged, dequeued_any,
               early_delivered, invoked, delivered>>
reader_vars == <<get_pc, get_first, get_result>>
drain2_vars == <<drain2_pc, drain2_msg>>
vars == <<prog_vars, drain2_vars, reader_vars, hist_vars>>

\* A message: storage is the buffer; id, text (the text push() was given), run
\* (the queue it entered) and early are history carried along with it.
NoMsg == [storage |-> <<>>, id |-> 0, text |-> <<>>, run |-> 0, early |-> FALSE]

NoCall == [cb |-> nullptr, arg |-> <<>>, id |-> 0, text |-> <<>>, run |-> 0]

Min(a, b) == IF a < b THEN a ELSE b

\* History ids from IdBase up name the producer that pushed the message
\* (producer * IdBase + number of the push); their deliveries are logged.
IdBase == 100
Producer(id) == id \div IdBase

Ids(q) == {q[i].id : i \in 1..Len(q)} \ {0}

(* ------------------------------------------------------------------ *)
(* Pure functions                                                      *)
(* ------------------------------------------------------------------ *)
\* vsnprintf(msg, CUBEB_LOG_MESSAGE_MAX_SIZE, fmt, args): the rendered text,
\* cut to the buffer (one byte kept for the terminator)
vsnprintf(rendered) ==
  SubSeq(rendered, 1, Min(Len(rendered), CUBEB_LOG_MESSAGE_MAX_SIZE - 1))

\* Faulty variant of the constructor: one byte too few is copied
cubeb_log_message_short(str) ==
  IF Len(str) > CUBEB_LOG_MESSAGE_MAX_SIZE - 1
  THEN UninitStorage
  ELSE {SubSeq(str, 1, Len(str) - 1)}

\* the assert of cubeb_log_message(char const str[])
cubeb_log_message_assert(str) == Len(str) < CUBEB_LOG_MESSAGE_MAX_SIZE

\* Faulty variant of the constructor: a text that fills the buffer exactly is
\* taken for an oversize one
cubeb_log_message_off_by_one(str) ==
  IF Len(str) >= CUBEB_LOG_MESSAGE_MAX_SIZE - 1
  THEN UninitStorage
  ELSE {str}

\* cubeb_log_message(char const str[]): what get() may return afterwards.
\* The early return leaves storage unwritten.
cubeb_log_message(str) ==
  IF Len(str) > CUBEB_LOG_MESSAGE_MAX_SIZE - 1
  THEN UninitStorage
  ELSE {str}

\* lock_free_queue::enqueue: refused when the queue holds cap elements
lock_free_enqueue(q, cap, e) ==
  IF Len(q) < cap THEN Append(q, e) ELSE q

\* the capacity start() gives the queue
start_capacity == CUBEB_LOG_MESSAGE_QUEUE_DEPTH

\* the branch cubeb_log_set takes
set_branch(log_level, log_callback) ==
  IF log_callback # nullptr /\ log_level # CUBEB_LOG_DISABLED THEN "start"
  ELSE IF log_callback = nullptr \/ CUBEB_LOG_DISABLED # 0 THEN "stop"
  ELSE "assert"

cubeb_log_get_level == g_cubeb_log_level

\* cubeb_log_get_callback reads g_cubeb_log_callback twice: first is what the
\* comparison loaded, second what the return statement loaded
cubeb_log_get_callback(first, second) ==
  IF first = cubeb_noop_log_callback THEN nullptr ELSE second

(* ------------------------------------------------------------------ *)
(* Initial state: static storage is zero-initialized, the singleton is *)
(* constructed with no queue, no thread, shutdown_thread = false.      *)
(* ------------------------------------------------------------------ *)
Init ==
  /\ ndebug \in BOOLEAN
  /\ g_cubeb_log_level = CUBEB_LOG_DISABLED
  /\ g_cubeb_log_callback = nullptr
  /\ msg_queue = 0
  /\ queue = <<>>
  /\ shutdown_thread = FALSE
  /\ logging_thread = FALSE
  /\ drain_pc = "none"
  /\ drain_msg = NoMsg
  /\ ctl_pc = "idle"
  /\ ctl_cb = nullptr
  /\ prod_pc = [p \in Producers |-> "idle"]
  /\ prod_msg = [p \in Producers |-> NoMsg]
  /\ prod_q = [p \in Producers |-> 0]
  /\ fault = "none"
  /\ drain2_pc = "none"
  /\ drain2_msg = NoMsg
  /\ get_pc = "idle"
  /\ get_first = nullptr
  /\ get_result = "none"
  /\ sets = 0
  /\ pushes = 0
  /\ qgen = 0
  /\ at_stop = {}
  /\ forwarded = {}
  /\ purged = {}
  /\ dequeued_any = FALSE
  /\ early_delivered = 0
  /\ invoked = NoCall
  /\ delivered = <<>>

Alive == fault = "none"

(* ------------------------------------------------------------------ *)
(* Control thread: cubeb_log_set and the logger's start() and stop()   *)
(* ------------------------------------------------------------------ *)
\* cubeb_log_set, entry: the level is stored and the branch is chosen
cubeb_log_set(log_level, log_callback) ==
  /\ Alive /\ ctl_pc = "idle"
  /\ g_cubeb_log_level' = log_level
  /\ sets' = sets + 1
  /\ LET b == set_branch(log_level, log_callback) IN
       /\ ctl_pc' = CASE b = "start" -> "publish"
                      [] b = "stop" -> "stop"
                      [] OTHER -> IF ndebug THEN "idle" ELSE "assert"
       /\ ctl_cb' = IF b = "start" THEN log_callback ELSE nullptr
       \* assert(false && "Incorrect parameters passed to cubeb_log_set")
       /\ fault' = IF b = "assert" /\ ~ndebug THEN "assert" ELSE fault
  /\ UNCHANGED reader_vars
  /\ UNCHANGED drain2_vars
  /\ UNCHANGED <<ndebug, g_cubeb_log_callback, msg_queue, queue, shutdown_thread,
                 logging_thread, drain_pc, drain_msg, prod_pc, prod_msg, prod_q>>
  /\ UNCHANGED <<pushes, qgen, at_stop, forwarded, purged, dequeued_any,
                 early_delivered, invoked, delivered>>

\* g_cubeb_log_callback = log_callback;
set_publish ==
  /\ Alive /\ ctl_pc = "publish"
  /\ g_cubeb_log_callback' = ctl_cb
  /\ ctl_cb' = nullptr
  /\ ctl_pc' = "start"
  /\ UNCHANGED reader_vars
  /\ UNCHANGED drain2_vars
  /\ UNCHANGED <<ndebug, g_cubeb_log_level, msg_queue, queue, shutdown_thread,
                 logging_thread, drain_pc, drain_msg, prod_pc, prod_msg, prod_q,
                 fault>>
  /\ UNCHANGED hist_vars

\* Faulty variant of start(): shutdown_thread is left as stop() set it
start_keeps_flag ==
  /\ Alive /\ ctl_pc = "start"
  /\ msg_queue' = qgen + 1
  /\ qgen' = qgen + 1
  /\ queue' = <<>>
  /\ ctl_pc' = "run"
  /\ dequeued_any' = FALSE
  /\ early_delivered' = 0
  /\ UNCHANGED reader_vars
  /\ UNCHANGED drain2_vars
  /\ UNCHANGED <<ndebug, g_cubeb_log_level, g_cubeb_log_callback, shutdown_thread,
                 logging_thread, drain_pc, drain_msg, ctl_cb, prod_pc, prod_msg,
                 prod_q, fault>>
  /\ UNCHANGED <<sets, pushes, at_stop, forwarded, purged, invoked, delivered>>

\* start(): msg_queue.reset(new lock_free_queue(...)); shutdown_thread = false;
\* The queue held before is deleted; a drain thread inside dequeue on it has a
\* dangling reference.
start ==
  /\ Alive /\ ctl_pc = "start"
  /\ msg_queue' = qgen + 1
  /\ qgen' = qgen + 1
  /\ queue' = <<>>
  /\ shutdown_thread' = FALSE
  /\ ctl_pc' = "run"
  /\ dequeued_any' = FALSE
  /\ early_delivered' = 0
  /\ \/ fault' = fault
     \/ /\ logging_thread /\ drain_pc = "dequeue"
        /\ fault' = "use_after_free"
  /\ UNCHANGED reader_vars
  /\ UNCHANGED drain2_vars
  /\ UNCHANGED <<ndebug, g_cubeb_log_level, g_cubeb_log_callback, logging_thread,
                 drain_pc, drain_msg, ctl_cb, prod_pc, prod_msg, prod_q>>
  /\ UNCHANGED <<sets, pushes, at_stop, forwarded, purged, invoked, delivered>>

\* run(): the two asserts, then logging_thread = std::thread(...). The new
\* std::thread is constructed, and its lambda started, before it is assigned.
\* When logging_thread is joinable (and the first assert is compiled out) that
\* is a second drain thread, and the assignment then calls std::terminate.
run ==
  /\ Alive /\ ctl_pc = "run"
  /\ IF logging_thread /\ ~ndebug
     THEN /\ fault' = "assert"
          /\ UNCHANGED <<logging_thread, drain_pc, ctl_pc, drain2_pc>>
     ELSE IF logging_thread /\ drain2_pc = "none"
     THEN /\ drain2_pc' = "check"
          /\ UNCHANGED <<logging_thread, drain_pc, ctl_pc, fault>>
     ELSE IF logging_thread
     THEN /\ fault' = "terminate"
          /\ UNCHANGED <<logging_thread, drain_pc, ctl_pc, drain2_pc>>
     ELSE IF msg_queue = 0 /\ ~ndebug
     THEN /\ fault' = "assert"
          /\ UNCHANGED <<logging_thread, drain_pc, ctl_pc, drain2_pc>>
     ELSE /\ logging_thread' = TRUE
          /\ drain_pc' = "check"
          /\ ctl_pc' = "idle"
          /\ fault' = fault
          /\ UNCHANGED drain2_pc
  /\ UNCHANGED drain2_msg
  /\ UNCHANGED reader_vars
  /\ UNCHANGED <<ndebug, g_cubeb_log_level, g_cubeb_log_callback, msg_queue, queue,
                 shutdown_thread, drain_msg, ctl_cb, prod_pc, prod_msg, prod_q>>
  /\ UNCHANGED hist_vars

\* Faulty variant of stop(): the join is attempted whether or not there is a
\* thread
stop_always_join ==
  /\ Alive /\ ctl_pc = "stop"
  /\ shutdown_thread' = TRUE
  /\ ctl_pc' = "join"
  /\ at_stop' = Ids(queue)
  /\ UNCHANGED reader_vars
  /\ UNCHANGED drain2_vars
  /\ UNCHANGED <<ndebug, g_cubeb_log_level, g_cubeb_log_callback, msg_queue, queue,
                 logging_thread, drain_pc, drain_msg, ctl_cb, prod_pc, prod_msg,
                 prod_q, fault>>
  /\ UNCHANGED <<sets, pushes, qgen, forwarded, purged, dequeued_any,
                 early_delivered, invoked, delivered>>

\* Faulty variant of stop(): the flag is set and the thread is never joined
stop_no_join ==
  /\ Alive /\ ctl_pc = "stop"
  /\ shutdown_thread' = TRUE
  /\ ctl_pc' = "publish_noop"
  /\ at_stop' = {}
  /\ UNCHANGED reader_vars
  /\ UNCHANGED drain2_vars
  /\ UNCHANGED <<ndebug, g_cubeb_log_level, g_cubeb_log_callback, msg_queue, queue,
                 logging_thread, drain_pc, drain_msg, ctl_cb, prod_pc, prod_msg,
                 prod_q, fault>>
  /\ UNCHANGED <<sets, pushes, qgen, forwarded, purged, dequeued_any,
                 early_delivered, invoked, delivered>>

\* stop(): shutdown_thread = true; and the test of logging_thread
stop ==
  /\ Alive /\ ctl_pc = "stop"
  /\ shutdown_thread' = TRUE
  /\ ctl_pc' = IF logging_thread THEN "join" ELSE "publish_noop"
  /\ at_stop' = IF logging_thread THEN Ids(queue) ELSE {}
  /\ UNCHANGED reader_vars
  /\ UNCHANGED drain2_vars
  /\ UNCHANGED <<ndebug, g_cubeb_log_level, g_cubeb_log_callback, msg_queue, queue,
                 logging_thread, drain_pc, drain_msg, ctl_cb, prod_pc, prod_msg,
                 prod_q, fault>>
  /\ UNCHANGED <<sets, pushes, qgen, forwarded, purged, dequeued_any,
                 early_delivered, invoked, delivered>>

\* logging_thread.join(); logging_thread = std::thread();
join ==
  /\ Alive /\ ctl_pc = "join"
  /\ drain_pc = "exited"
  /\ logging_thread' = FALSE
  /\ drain_pc' = "none"
  /\ ctl_pc' = "reset_ids"
  /\ UNCHANGED reader_vars
  /\ UNCHANGED drain2_vars
  /\ UNCHANGED <<ndebug, g_cubeb_log_level, g_cubeb_log_callback, msg_queue, queue,
                 shutdown_thread, drain_msg, ctl_cb, prod_pc, prod_msg, prod_q,
                 fault>>
  /\ UNCHANGED hist_vars

\* msg_queue->reset_thread_ids(); in stop(). Through a null msg_queue the call
\* is undefined: the process dies, or the call returns (a reset_thread_ids that
\* touches no member).
stop_reset_thread_ids ==
  /\ Alive /\ ctl_pc = "reset_ids"
  /\ IF msg_queue = 0
     THEN \/ fault' = "null_deref" /\ ctl_pc' = ctl_pc
          \/ fault' = fault /\ ctl_pc' = "purge"
     ELSE fault' = fault /\ ctl_pc' = "purge"
  /\ UNCHANGED reader_vars
  /\ UNCHANGED drain2_vars
  /\ UNCHANGED <<ndebug, g_cubeb_log_level, g_cubeb_log_callback, msg_queue, queue,
                 shutdown_thread, logging_thread, drain_pc, drain_msg, ctl_cb,
                 prod_pc, prod_msg, prod_q>>
  /\ UNCHANGED hist_vars

\* Faulty variant of purge_queue(): returns without dequeuing anything
purge_queue_skip(at, next) ==
  /\ Alive /\ ctl_pc = at
  /\ ctl_pc' = next
  /\ UNCHANGED reader_vars
  /\ UNCHANGED drain2_vars
  /\ UNCHANGED <<ndebug, g_cubeb_log_level, g_cubeb_log_callback, msg_queue, queue,
                 shutdown_thread, logging_thread, drain_pc, drain_msg, ctl_cb,
                 prod_pc, prod_msg, prod_q, fault>>
  /\ UNCHANGED hist_vars

\* purge_queue(): the assert, the test of msg_queue and one turn of the
\* dequeue loop; at is where the control thread is, next where it goes on
purge_queue(at, next) ==
  /\ Alive /\ ctl_pc = at
  /\ IF logging_thread /\ ~ndebug
     THEN fault' = "assert" /\ UNCHANGED <<ctl_pc, queue, purged>>
     ELSE IF msg_queue = 0 \/ queue = <<>>
     THEN fault' = fault /\ ctl_pc' = next /\ UNCHANGED <<queue, purged>>
     ELSE /\ queue' = Tail(queue)
          /\ purged' = purged \cup ({Head(queue).id} \cap at_stop)
          /\ UNCHANGED <<fault, ctl_pc>>
  /\ UNCHANGED reader_vars
  /\ UNCHANGED drain2_vars
  /\ UNCHANGED <<ndebug, g_cubeb_log_level, g_cubeb_log_callback, msg_queue,
                 shutdown_thread, logging_thread, drain_pc, drain_msg, ctl_cb,
                 prod_pc, prod_msg, prod_q>>
  /\ UNCHANGED <<sets, pushes, qgen, at_stop, forwarded, dequeued_any,
                 early_delivered, invoked, delivered>>

\* purge_queue(); in stop()
stop_purge_queue == purge_queue("purge", "release")

\* msg_queue.reset(nullptr); the end of stop()
stop_release ==
  /\ Alive /\ ctl_pc = "release"
  /\ msg_queue' = 0
  /\ queue' = <<>>
  /\ ctl_pc' = "publish_noop"
  /\ UNCHANGED reader_vars
  /\ UNCHANGED drain2_vars
  /\ UNCHANGED <<ndebug, g_cubeb_log_level, g_cubeb_log_callback, shutdown_thread,
                 logging_thread, drain_pc, drain_msg, ctl_cb, prod_pc, prod_msg,
                 prod_q, fault>>
  /\ UNCHANGED hist_vars

\* Faulty variant of the disabling store: the callback is set back to nullptr
set_publish_null ==
  /\ Alive /\ ctl_pc = "publish_noop"
  /\ g_cubeb_log_callback' = nullptr
  /\ ctl_pc' = "purge2"
  /\ at_stop' = {}
  /\ forwarded' = {}
  /\ purged' = {}
  /\ UNCHANGED reader_vars
  /\ UNCHANGED drain2_vars
  /\ UNCHANGED <<ndebug, g_cubeb_log_level, msg_queue, queue, shutdown_thread,
                 logging_thread, drain_pc, drain_msg, ctl_cb, prod_pc, prod_msg,
                 prod_q, fault>>
  /\ UNCHANGED <<sets, pushes, qgen, dequeued_any, early_delivered, invoked, delivered>>

\* g_cubeb_log_callback = cubeb_noop_log_callback;
set_publish_noop ==
  /\ Alive /\ ctl_pc = "publish_noop"
  /\ g_cubeb_log_callback' = cubeb_noop_log_callback
  /\ ctl_pc' = "purge2"
  /\ at_stop' = {}
  /\ forwarded' = {}
  /\ purged' = {}
  /\ UNCHANGED reader_vars
  /\ UNCHANGED drain2_vars
  /\ UNCHANGED <<ndebug, g_cubeb_log_level, msg_queue, queue, shutdown_thread,
                 logging_thread, drain_pc, drain_msg, ctl_cb, prod_pc, prod_msg,
                 prod_q, fault>>
  /\ UNCHANGED <<sets, pushes, qgen, dequeued_any, early_delivered, invoked, delivered>>

\* cubeb_async_logger::get().purge_queue(); the end of cubeb_log_set
set_purge_queue == purge_queue("purge2", "idle")

(* ------------------------------------------------------------------ *)
(* Drain thread: the lambda of run()                                   *)
(* ------------------------------------------------------------------ *)
\* while (!shutdown_thread)
drain_check ==
  /\ Alive /\ drain_pc = "check"
  /\ drain_pc' = IF shutdown_thread THEN "exited" ELSE "dequeue"
  /\ UNCHANGED reader_vars
  /\ UNCHANGED drain2_vars
  /\ UNCHANGED <<ndebug, g_cubeb_log_level, g_cubeb_log_callback, msg_queue, queue,
                 shutdown_thread, logging_thread, drain_msg, ctl_pc, ctl_cb,
                 prod_pc, prod_msg, prod_q, fault>>
  /\ UNCHANGED hist_vars

\* Faulty variant of the dequeue: the message is read and left in the queue
drain_dequeue_peek ==
  /\ Alive /\ drain_pc = "dequeue"
  /\ IF msg_queue = 0
     THEN /\ fault' = "null_deref"
          /\ UNCHANGED <<drain_pc, drain_msg, dequeued_any>>
     ELSE IF queue # <<>>
     THEN /\ drain_msg' = Head(queue)
          /\ drain_pc' = "callback"
          /\ dequeued_any' = TRUE
          /\ fault' = fault
     ELSE /\ drain_pc' = "sleep"
          /\ UNCHANGED <<drain_msg, fault, dequeued_any>>
  /\ UNCHANGED reader_vars
  /\ UNCHANGED drain2_vars
  /\ UNCHANGED <<ndebug, g_cubeb_log_level, g_cubeb_log_callback, msg_queue, queue,
                 shutdown_thread, logging_thread, ctl_pc, ctl_cb, prod_pc,
                 prod_msg, prod_q>>
  /\ UNCHANGED <<sets, pushes, qgen, at_stop, forwarded, purged, early_delivered,
                 invoked, delivered>>

\* while (msg_queue->dequeue(&msg, 1))
drain_dequeue ==
  /\ Alive /\ drain_pc = "dequeue"
  /\ IF msg_queue = 0
     THEN /\ fault' = "null_deref"
          /\ UNCHANGED <<drain_pc, drain_msg, queue, dequeued_any>>
     ELSE IF queue # <<>>
     THEN /\ drain_msg' = Head(queue)
          /\ queue' = Tail(queue)
          /\ drain_pc' = "callback"
          /\ dequeued_any' = TRUE
          /\ fault' = fault
     ELSE /\ drain_pc' = "sleep"
          /\ UNCHANGED <<drain_msg, queue, fault, dequeued_any>>
  /\ UNCHANGED reader_vars
  /\ UNCHANGED drain2_vars
  /\ UNCHANGED <<ndebug, g_cubeb_log_level, g_cubeb_log_callback, msg_queue,
                 shutdown_thread, logging_thread, ctl_pc, ctl_cb, prod_pc,
                 prod_msg, prod_q>>
  /\ UNCHANGED <<sets, pushes, qgen, at_stop, forwarded, purged, early_delivered,
                 invoked, delivered>>

\* cubeb_log_internal_no_format(msg.get()): g_cubeb_log_callback.load()(msg)
cubeb_log_internal_no_format ==
  /\ Alive /\ drain_pc = "callback"
  /\ IF g_cubeb_log_callback = nullptr
     THEN /\ fault' = "null_call"
          /\ UNCHANGED <<drain_pc, drain_msg, forwarded, early_delivered, invoked,
                         delivered>>
     ELSE /\ fault' = fault
          /\ drain_pc' = "dequeue"
          /\ drain_msg' = NoMsg
          /\ invoked' = [cb |-> g_cubeb_log_callback, arg |-> drain_msg.storage,
                         id |-> drain_msg.id, text |-> drain_msg.text,
                         run |-> drain_msg.run]
          /\ forwarded' = forwarded \cup ({drain_msg.id} \cap at_stop)
          /\ early_delivered' =
               early_delivered
                 + (IF drain_msg.early /\ drain_msg.run = msg_queue THEN 1 ELSE 0)
          /\ delivered' = IF drain_msg.id >= IdBase
                          THEN Append(delivered, drain_msg.id)
                          ELSE delivered
  /\ UNCHANGED reader_vars
  /\ UNCHANGED drain2_vars
  /\ UNCHANGED <<ndebug, g_cubeb_log_level, g_cubeb_log_callback, msg_queue, queue,
                 shutdown_thread, logging_thread, ctl_pc, ctl_cb, prod_pc,
                 prod_msg, prod_q>>
  /\ UNCHANGED <<sets, pushes, qgen, at_stop, purged, dequeued_any>>

\* std::this_thread::sleep_for(CUBEB_LOG_BATCH_PRINT_INTERVAL_MS)
drain_sleep ==
  /\ Alive /\ drain_pc = "sleep"
  /\ drain_pc' = "check"
  /\ UNCHANGED reader_vars
  /\ UNCHANGED drain2_vars
  /\ UNCHANGED <<ndebug, g_cubeb_log_level, g_cubeb_log_callback, msg_queue, queue,
                 shutdown_thread, logging_thread, drain_msg, ctl_pc, ctl_cb,
                 prod_pc, prod_msg, prod_q, fault>>
  /\ UNCHANGED hist_vars

DrainThread ==
  drain_check \/ drain_dequeue \/ cubeb_log_internal_no_format \/ drain_sleep

(* ------------------------------------------------------------------ *)
(* The thread started by a run() on a running logger: the same lambda. *)
(* It reads msg_queue on every turn, as the first thread does, so both *)
(* dequeue from the queue the second start() allocated. Each dequeue   *)
(* is taken as one step of the queue.                                  *)
(* ------------------------------------------------------------------ *)
\* while (!shutdown_thread)
drain2_check ==
  /\ Alive /\ drain2_pc = "check"
  /\ drain2_pc' = IF shutdown_thread THEN "exited" ELSE "dequeue"
  /\ UNCHANGED drain2_msg
  /\ UNCHANGED prog_vars
  /\ UNCHANGED reader_vars
  /\ UNCHANGED hist_vars

\* while (msg_queue->dequeue(&msg, 1))
drain2_dequeue ==
  /\ Alive /\ drain2_pc = "dequeue"
  /\ IF msg_queue = 0
     THEN /\ fault' = "null_deref"
          /\ UNCHANGED <<drain2_pc, drain2_msg, queue, dequeued_any>>
     ELSE IF queue # <<>>
     THEN /\ drain2_msg' = Head(queue)
          /\ queue' = Tail(queue)
          /\ drain2_pc' = "callback"
          /\ dequeued_any' = TRUE
          /\ fault' = fault
     ELSE /\ drain2_pc' = "sleep"
          /\ UNCHANGED <<drain2_msg, queue, fault, dequeued_any>>
  /\ UNCHANGED reader_vars
  /\ UNCHANGED <<ndebug, g_cubeb_log_level, g_cubeb_log_callback, msg_queue,
                 shutdown_thread, logging_thread, drain_pc, drain_msg, ctl_pc,
                 ctl_cb, prod_pc, prod_msg, prod_q>>
  /\ UNCHANGED <<sets, pushes, qgen, at_stop, forwarded, purged, early_delivered,
                 invoked, delivered>>

\* cubeb_log_internal_no_format(msg.get()) in the second thread
drain2_log_internal_no_format ==
  /\ Alive /\ drain2_pc = "callback"
  /\ IF g_cubeb_log_callback = nullptr
     THEN /\ fault' = "null_call"
          /\ UNCHANGED <<drain2_pc, drain2_msg, forwarded, early_delivered,
                         invoked, delivered>>
     ELSE /\ fault' = fault
          /\ drain2_pc' = "dequeue"
          /\ drain2_msg' = NoMsg
          /\ invoked' = [cb |-> g_cubeb_log_callback, arg |-> drain2_msg.storage,
                         id |-> drain2_msg.id, text |-> drain2_msg.text,
                         run |-> drain2_msg.run]
          /\ forwarded' = forwarded \cup ({drain2_msg.id} \cap at_stop)
          /\ early_delivered' =
               early_delivered
                 + (IF drain2_msg.early /\ drain2_msg.run = msg_queue THEN 1 ELSE 0)
          /\ delivered' = IF drain2_msg.id >= IdBase
                          THEN Append(delivered, drain2_msg.id)
                          ELSE delivered
  /\ UNCHANGED reader_vars
  /\ UNCHANGED <<ndebug, g_cubeb_log_level, g_cubeb_log_callback, msg_queue, queue,
                 shutdown_thread, logging_thread, drain_pc, drain_msg, ctl_pc,
                 ctl_cb, prod_pc, prod_msg, prod_q>>
  /\ UNCHANGED <<sets, pushes, qgen, at_stop, purged, dequeued_any>>

\* std::this_thread::sleep_for(CUBEB_LOG_BATCH_PRINT_INTERVAL_MS)
drain2_sleep ==
  /\ Alive /\ drain2_pc = "sleep"
  /\ drain2_pc' = "check"
  /\ UNCHANGED drain2_msg
  /\ UNCHANGED prog_vars
  /\ UNCHANGED reader_vars
  /\ UNCHANGED hist_vars

Drain2Thread ==
  drain2_check \/ drain2_dequeue \/ drain2_log_internal_no_format \/ drain2_sleep

(* ------------------------------------------------------------------ *)
(* Producers: cubeb_async_log and push                                 *)
(* ------------------------------------------------------------------ *)
\* Faulty variant of push(): on a full queue the oldest message makes room
push_drop_oldest(q, msg) ==
  IF Len(q) < start_capacity THEN Append(q, msg) ELSE Append(Tail(q), msg)

\* push(): msg_queue->enqueue(msg), once, the result ignored
push(q, msg) == lock_free_enqueue(q, start_capacity, msg)

\* cubeb_async_log up to the load of msg_queue in push(): the text is
\* rendered into the stack buffer and wrapped into a cubeb_log_message.
\* id > 0 tracks the message in the history variables; the specification
\* using the action counts the call in pushes.
cubeb_async_log(p, rendered, id) ==
  /\ Alive /\ prod_pc[p] = "idle"
  /\ LET msg == vsnprintf(rendered) IN
       IF ~cubeb_log_message_assert(msg) /\ ~ndebug
       THEN fault' = "assert" /\ UNCHANGED <<prod_pc, prod_msg, prod_q>>
       ELSE IF msg_queue = 0
       THEN fault' = "null_deref" /\ UNCHANGED <<prod_pc, prod_msg, prod_q>>
       ELSE /\ fault' = fault
            /\ \E st \in cubeb_log_message(msg) :
                 prod_msg' = [prod_msg EXCEPT ![p] =
                                [storage |-> st, id |-> id, text |-> msg,
                                 run |-> 0, early |-> FALSE]]
            /\ prod_q' = [prod_q EXCEPT ![p] = msg_queue]
            /\ prod_pc' = [prod_pc EXCEPT ![p] = "enqueue"]
  /\ UNCHANGED reader_vars
  /\ UNCHANGED drain2_vars
  /\ UNCHANGED <<ndebug, g_cubeb_log_level, g_cubeb_log_callback, msg_queue, queue,
                 shutdown_thread, logging_thread, drain_pc, drain_msg, ctl_pc,
                 ctl_cb>>
  /\ UNCHANGED <<sets, qgen, at_stop, forwarded, purged, dequeued_any,
                 early_delivered, invoked, delivered>>

\* push(str) up to the load of msg_queue: cubeb_log_message msg(str), with the
\* constructor's assert, then the dereference of msg_queue
push_begin(p, str, id) ==
  /\ Alive /\ prod_pc[p] = "idle"
  /\ IF ~cubeb_log_message_assert(str) /\ ~ndebug
     THEN fault' = "assert" /\ UNCHANGED <<prod_pc, prod_msg, prod_q>>
     ELSE IF msg_queue = 0
     THEN fault' = "null_deref" /\ UNCHANGED <<prod_pc, prod_msg, prod_q>>
     ELSE /\ fault' = fault
          /\ \E st \in cubeb_log_message(str) :
               prod_msg' = [prod_msg EXCEPT ![p] =
                              [storage |-> st, id |-> id, text |-> str,
                               run |-> 0, early |-> FALSE]]
          /\ prod_q' = [prod_q EXCEPT ![p] = msg_queue]
          /\ prod_pc' = [prod_pc EXCEPT ![p] = "enqueue"]
  /\ UNCHANGED reader_vars
  /\ UNCHANGED drain2_vars
  /\ UNCHANGED <<ndebug, g_cubeb_log_level, g_cubeb_log_callback, msg_queue, queue,
                 shutdown_thread, logging_thread, drain_pc, drain_msg, ctl_pc,
                 ctl_cb>>
  /\ UNCHANGED <<sets, qgen, at_stop, forwarded, purged, dequeued_any,
                 early_delivered, invoked, delivered>>

\* the message as it enters the queue now
Entering(msg) == [msg EXCEPT !.run = msg_queue, !.early = ~dequeued_any]

\* the enqueue of push(), on the queue whose pointer the producer loaded. If that
\* queue has been deleted since, the write goes through a dangling pointer: the
\* process dies, the write is lost, or it lands in a queue allocated there since.
push_enqueue(p) ==
  /\ Alive /\ prod_pc[p] = "enqueue"
  /\ prod_pc' = [prod_pc EXCEPT ![p] = "idle"]
  /\ prod_msg' = [prod_msg EXCEPT ![p] = NoMsg]
  /\ prod_q' = [prod_q EXCEPT ![p] = 0]
  /\ IF prod_q[p] = msg_queue
     THEN /\ queue' = push(queue, Entering(prod_msg[p]))
          /\ fault' = fault
     ELSE \/ /\ fault' = "use_after_free"
             /\ UNCHANGED queue
          \/ /\ fault' = fault
             /\ UNCHANGED queue
          \/ /\ msg_queue # 0
             /\ fault' = fault
             /\ queue' = push(queue, Entering(prod_msg[p]))
  /\ UNCHANGED reader_vars
  /\ UNCHANGED drain2_vars
  /\ UNCHANGED <<ndebug, g_cubeb_log_level, g_cubeb_log_callback, msg_queue,
                 shutdown_thread, logging_thread, drain_pc, drain_msg, ctl_pc,
                 ctl_cb>>
  /\ UNCHANGED hist_vars

(* ------------------------------------------------------------------ *)
(* The other entry points                                              *)
(* ------------------------------------------------------------------ *)
\* cubeb_log_internal: g_cubeb_log_callback.load()("%s:%d:%s", file, line, msg)
cubeb_log_internal ==
  /\ Alive
  /\ fault' = IF g_cubeb_log_callback = nullptr THEN "null_call" ELSE fault
  /\ UNCHANGED reader_vars
  /\ UNCHANGED drain2_vars
  /\ UNCHANGED <<ndebug, g_cubeb_log_level, g_cubeb_log_callback, msg_queue, queue,
                 shutdown_thread, logging_thread, drain_pc, drain_msg, ctl_pc,
                 ctl_cb, prod_pc, prod_msg, prod_q>>
  /\ UNCHANGED hist_vars

\* cubeb_log_get_callback, the comparison: g_cubeb_log_callback is loaded and
\* compared with cubeb_noop_log_callback; if equal the call returns nullptr
get_callback_compare ==
  /\ Alive /\ get_pc = "idle"
  /\ IF g_cubeb_log_callback = cubeb_noop_log_callback
     THEN /\ get_result' =
               cubeb_log_get_callback(g_cubeb_log_callback, g_cubeb_log_callback)
          /\ UNCHANGED <<get_pc, get_first>>
     ELSE /\ get_first' = g_cubeb_log_callback
          /\ get_pc' = "return"
          /\ UNCHANGED get_result
  /\ UNCHANGED prog_vars
  /\ UNCHANGED drain2_vars
  /\ UNCHANGED hist_vars

\* cubeb_log_get_callback, the return: g_cubeb_log_callback is loaded again and
\* returned, whatever was stored since the comparison
get_callback_return ==
  /\ Alive /\ get_pc = "return"
  /\ get_result' = cubeb_log_get_callback(get_first, g_cubeb_log_callback)
  /\ get_first' = nullptr
  /\ get_pc' = "idle"
  /\ UNCHANGED prog_vars
  /\ UNCHANGED drain2_vars
  /\ UNCHANGED hist_vars

\* cubeb_async_log_reset_threads: the test of the callback, then
\* reset_producer_thread(): msg_queue->reset_thread_ids(). Through a null
\* msg_queue the call is undefined: the process dies, or the call returns (a
\* reset_thread_ids that touches no member).
cubeb_async_log_reset_threads ==
  /\ Alive
  /\ IF g_cubeb_log_callback # nullptr /\ msg_queue = 0
     THEN fault' \in {fault, "null_deref"}
     ELSE fault' = fault
  /\ UNCHANGED reader_vars
  /\ UNCHANGED drain2_vars
  /\ UNCHANGED <<ndebug, g_cubeb_log_level, g_cubeb_log_callback, msg_queue, queue,
                 shutdown_thread, logging_thread, drain_pc, drain_msg, ctl_pc,
                 ctl_cb, prod_pc, prod_msg, prod_q>>
  /\ UNCHANGED hist_vars

(* ------------------------------------------------------------------ *)
(* Specifications                                                      *)
(* ------------------------------------------------------------------ *)
ControlSteps ==
  \/ set_publish \/ start \/ run
  \/ stop \/ join \/ stop_reset_thread_ids \/ stop_purge_queue \/ stop_release
  \/ set_publish_noop \/ set_purge_queue

\* Any cubeb_log_set calls, producers and readers, the drain thread.
Next ==
  \/ \E l \in Levels, cb \in Callbacks \cup {nullptr} :
       sets < MaxSet /\ cubeb_log_set(l, cb)
  \/ ControlSteps
  \/ \E p \in Producers, t \in Texts :
       /\ pushes < MaxPush /\ pushes' = pushes + 1
       /\ cubeb_async_log(p, t, pushes + 1)
  \/ \E p \in Producers : push_enqueue(p)
  \/ DrainThread
  \/ Drain2Thread
  \/ cubeb_log_internal
  \/ cubeb_async_log_reset_threads

Spec == Init /\ [][Next]_vars

\* The burst scenario: logging is enabled once and one producer pushes more
\* messages than the queue holds while the drain thread runs.
NextBurst ==
  \/ sets < 1 /\ cubeb_log_set(CUBEB_LOG_NORMAL, "cb1")
  \/ set_publish \/ start \/ run
  \/ /\ pushes < MaxBurst /\ pushes' = pushes + 1
     /\ cubeb_async_log(1, BurstText, 0)
  \/ push_enqueue(1)
  \/ DrainThread

SpecBurst == Init /\ [][NextBurst]_vars

\* Logging is enabled (when it is not running) and disabled, level
\* CUBEB_LOG_NORMAL throughout, while the producers push; the drain thread is
\* scheduled fairly.
NextFair ==
  \/ \E cb \in Callbacks :
       sets < MaxSet /\ ~logging_thread /\ cubeb_log_set(CUBEB_LOG_NORMAL, cb)
  \/ sets < MaxSet /\ cubeb_log_set(CUBEB_LOG_NORMAL, nullptr)
  \/ ControlSteps
  \/ \E p \in Producers, t \in Texts :
       /\ pushes < MaxPush /\ pushes' = pushes + 1
       /\ cubeb_async_log(p, t, pushes + 1)
  \/ \E p \in Producers : push_enqueue(p)
  \/ DrainThread

FairSpec == Init /\ [][NextFair]_vars /\ WF_vars(DrainThread)

\* Logging is enabled (when it is not running) and disabled while a producer
\* keeps pushing, without end; the drain thread and the control thread are
\* scheduled fairly.
NextLive ==
  \/ sets < MaxSet /\ ~logging_thread /\ cubeb_log_set(CUBEB_LOG_NORMAL, "cb1")
  \/ sets < MaxSet /\ cubeb_log_set(CUBEB_LOG_NORMAL, nullptr)
  \/ ControlSteps
  \/ pushes' = pushes /\ cubeb_async_log(1, BurstText, 0)
  \/ push_enqueue(1)
  \/ DrainThread

LiveSpec ==
  Init /\ [][NextLive]_vars /\ WF_vars(DrainThread) /\ WF_vars(ControlSteps)

\* The message scenario: logging is enabled once and push() is applied to
\* texts of lengths around the capacity of a message.
NextMsg ==
  \/ sets < 1 /\ cubeb_log_set(CUBEB_LOG_NORMAL, "cb1")
  \/ set_publish \/ start \/ run
  \/ \E str \in MsgInputs :
       /\ pushes < MaxMsgPush /\ pushes' = pushes + 1
       /\ push_begin(1, str, pushes + 1)
  \/ push_enqueue(1)
  \/ DrainThread

SpecMsg == Init /\ [][NextMsg]_vars

\* The concurrent scenario: logging is enabled once and the producers push
\* concurrently while the drain thread runs; every message is tagged with its
\* producer.
NextConc ==
  \/ sets < 1 /\ cubeb_log_set(CUBEB_LOG_NORMAL, "cb1")
  \/ set_publish \/ start \/ run
  \/ \E p \in Producers, t \in Texts :
       /\ pushes < MaxConcPush /\ pushes' = pushes + 1
       /\ cubeb_async_log(p, t, p * IdBase + pushes + 1)
  \/ \E p \in Producers : push_enqueue(p)
  \/ DrainThread

SpecConc == Init /\ [][NextConc]_vars

\* The reader scenario: any cubeb_log_set calls, with a thread that calls
\* cubeb_log_get_callback at any time; no message is pushed.
NextRead ==
  \/ \E l \in Levels, cb \in Callbacks \cup {nullptr} :
       sets < MaxSet /\ cubeb_log_set(l, cb)
  \/ ControlSteps
  \/ drain_check \/ drain_dequeue \/ drain_sleep
  \/ drain2_check \/ drain2_dequeue \/ drain2_sleep
  \/ get_callback_compare
  \/ get_callback_return

SpecRead == Init /\ [][NextRead]_vars

(* ------------------------------------------------------------------ *)
(* Claims                                                              *)
(* ------------------------------------------------------------------ *)
\* a step in which a cubeb_log_set call returns to its caller
SetReturns ==
  /\ ctl_pc' = "idle" /\ fault' = "none"
  /\ ctl_pc # "idle" \/ sets' # sets

\* stop() has just returned from stopping a running logger
StopReturned == ctl_pc = "publish_noop" /\ qgen > 0 /\ ~logging_thread

\* C3, as claimed: when stop() returns from stopping a running logger, every
\* message that was queued when it was called has been forwarded to the callback.
C3_AllForwardedAtStop == StopReturned => at_stop \subseteq forwarded

\* C3, amended: when stop() returns from stopping a running logger, every
\* message that was queued when it was called has been either forwarded to the
\* callback or discarded by purge_queue, never both, and the queue is empty.
C3_ForwardedOrPurgedAtStop ==
  StopReturned =>
    /\ at_stop \subseteq (forwarded \cup purged)
    /\ forwarded \cap purged = {}
    /\ queue = <<>> /\ msg_queue = 0

\* C3 witness: stop() has returned and a message queued at its call was purged
C3_PurgedAtStop == StopReturned /\ Alive /\ purged # {}

\* C4, as claimed: whenever a call cubeb_log_set(CUBEB_LOG_DISABLED, callback)
\* returns, cubeb_log_get_callback() is absent and cubeb_log_get_level() is
\* CUBEB_LOG_DISABLED. The level stored at entry tells the call's level.
C4_DisabledClearsCallback ==
  [][(SetReturns /\ g_cubeb_log_level' = CUBEB_LOG_DISABLED)
       => /\ cubeb_log_get_callback(g_cubeb_log_callback',
                                    g_cubeb_log_callback') = nullptr
          /\ cubeb_log_get_level' = CUBEB_LOG_DISABLED]_vars

\* C5, as claimed: while a drain thread exists (logging_thread is joinable) no
\* step replaces or releases the queue, and a cubeb_log_set call made while the
\* logger runs does not end the process in run().
C5_QueueKeptWhileRunning ==
  [][logging_thread
       => (msg_queue' = msg_queue /\ (ctl_pc = "run" => fault' = "none"))]_vars

\* the window in which producers may touch the queue: start() has completed
\* and no stop() has begun to join
InWindow == logging_thread /\ msg_queue # 0 /\ ctl_pc \notin {"run", "join"}

\* C6, as claimed: every step of a producer inside cubeb_async_log/push (the
\* load of msg_queue, the enqueue) is taken inside the window.
C6_ProducerInWindow ==
  [][(pushes' # pushes \/ prod_pc' # prod_pc) => InWindow]_vars

\* C9: once g_cubeb_log_callback is not null no step makes it null, and the
\* disabling branch of cubeb_log_set stores the no-op callback.
C9_CallbackNeverNullAgain ==
  [][/\ g_cubeb_log_callback # nullptr => g_cubeb_log_callback' # nullptr
     /\ (ctl_pc = "publish_noop" /\ ctl_pc' # ctl_pc)
          => g_cubeb_log_callback' = cubeb_noop_log_callback]_vars

\* C9 witness: logging was enabled with a real callback, then disabled
C9_DisabledAfterEnabled ==
  /\ Alive /\ ctl_pc = "idle" /\ qgen > 0
  /\ g_cubeb_log_callback = cubeb_noop_log_callback

\* C10: a cubeb_log_set call with an absent callback enters stop(); the no-op
\* callback is published only once stop() has joined the drain thread and
\* released the queue; the final purge runs with the no-op callback published;
\* when the call returns there is no drain thread and no queued message; and
\* while the no-op callback is published the asynchronous path makes no
\* invocation.
C10_DisableOrder ==
  /\ [](/\ ctl_pc = "publish_noop"
             => (~logging_thread /\ drain_pc = "none" /\ msg_queue = 0)
        /\ ctl_pc = "purge2"
             => (g_cubeb_log_callback = cubeb_noop_log_callback
                 /\ ~logging_thread /\ drain_pc = "none")
        /\ g_cubeb_log_callback = cubeb_noop_log_callback
             => (drain_pc = "none" /\ ~logging_thread))
  /\ [][/\ \A l \in Levels : cubeb_log_set(l, nullptr) => ctl_pc' = "stop"
        /\ (ctl_pc = "purge2" /\ ctl_pc' = "idle")
             => (~logging_thread' /\ drain_pc' = "none"
                 /\ queue' = <<>> /\ msg_queue' = 0)
        /\ g_cubeb_log_callback = cubeb_noop_log_callback
             => (invoked' = invoked \/ g_cubeb_log_callback' # g_cubeb_log_callback)
       ]_vars

\* C10 witness: the disabling call is about to publish the no-op callback,
\* after a stop() that found messages queued
C10_StoppedThenPublish ==
  StopReturned /\ Alive /\ at_stop # {} /\ g_cubeb_log_callback \in Callbacks

\* C2: the queue never holds more than CUBEB_LOG_MESSAGE_QUEUE_DEPTH messages;
\* of the messages pushed before the drain thread has dequeued anything, at most
\* that many are delivered to the callback; a producer at its enqueue can always
\* take the step (it waits for no other thread); and an enqueue on a full queue
\* leaves the queue as it was (the new message is dropped).
C2_FullQueueDropsNewest ==
  /\ [](/\ Len(queue) <= CUBEB_LOG_MESSAGE_QUEUE_DEPTH
        /\ early_delivered <= CUBEB_LOG_MESSAGE_QUEUE_DEPTH
        /\ \A p \in Producers :
             (Alive /\ prod_pc[p] = "enqueue") => ENABLED push_enqueue(p))
  /\ [][\A p \in Producers :
          (/\ prod_pc[p] = "enqueue" /\ prod_pc'[p] = "idle"
           /\ Len(queue) = CUBEB_LOG_MESSAGE_QUEUE_DEPTH)
            => queue' = queue]_vars

\* C2 witness: more pushes than the queue holds have completed before any
\* dequeue, and every message that was queued by then has been delivered
C2_BurstDelivered ==
  /\ Alive /\ pushes > CUBEB_LOG_MESSAGE_QUEUE_DEPTH
  /\ early_delivered = CUBEB_LOG_MESSAGE_QUEUE_DEPTH
  /\ queue = <<>>

\* message i is in the queue
InQueue(i) == \E k \in 1..Len(queue) : queue[k].id = i

\* the logger runs, no cubeb_log_set call is in progress and no producer holds
\* a pointer to a queue deleted since
Running ==
  /\ Alive /\ ctl_pc = "idle" /\ logging_thread
  /\ \A p \in Producers : prod_pc[p] = "enqueue" => prod_q[p] = msg_queue

\* the drain thread has invoked the configured callback with message i, the
\* argument being the text push() was given
Invoked(i) ==
  /\ invoked.id = i /\ invoked.arg = invoked.text
  /\ invoked.cb \in Callbacks /\ invoked.cb = g_cubeb_log_callback

\* C1: with the drain thread scheduled fairly, a message that push() has put in
\* the queue of a running logger is eventually passed, as pushed, to the
\* configured callback, unless a further cubeb_log_set call is made first.
C1_PushedEventuallyDelivered ==
  \A i \in 1..MaxPush :
    (Running /\ InQueue(i)) ~> (Invoked(i) \/ ctl_pc # "idle")

\* C1 witness: the first run's drain thread has delivered a non-empty text
C1_Delivered ==
  /\ Alive /\ ctl_pc = "idle" /\ invoked.id > 0 /\ invoked.run = 1
  /\ invoked.cb \in Callbacks /\ invoked.arg = <<1, 2>>

\* C7, as claimed: a stop() that has begun to join the drain thread eventually
\* returns, and when it has returned the drain thread is gone.
C7_StopReturns ==
  /\ (ctl_pc = "join") ~> (ctl_pc = "publish_noop")
  /\ [](ctl_pc = "publish_noop" => (~logging_thread /\ drain_pc = "none"))

\* C8: start() begins every run with an empty queue, the queue and the drain
\* thread hold only messages that entered the current queue, and after a
\* stop() followed by a start() a message put in the queue is eventually
\* passed to the configured callback, unless a further cubeb_log_set call is
\* made first.
C8_RestartDelivers ==
  /\ [](/\ \A k \in 1..Len(queue) : queue[k].run = msg_queue
        /\ (drain_pc = "callback" /\ ctl_pc # "run")
             => drain_msg.run = msg_queue)
  /\ [][(ctl_pc = "start" /\ ctl_pc' = "run") => queue' = <<>>]_vars
  /\ \A i \in 1..MaxPush :
       (Running /\ qgen > 1 /\ InQueue(i)) ~> (Invoked(i) \/ ctl_pc # "idle")

\* C8 witness: after a restart the drain thread has delivered the second
\* message pushed, to the callback set at the restart
C8_DeliveredAfterRestart ==
  /\ Alive /\ invoked.run > 1 /\ invoked.id = 2
  /\ invoked.arg = invoked.text /\ invoked.cb = g_cubeb_log_callback

\* C16, as claimed: whatever the level and the callback, a cubeb_log_set call
\* takes the enabling branch or the disabling branch, never the final else.
C16_BranchesComplement ==
  [][\A l \in Levels, cb \in Callbacks \cup {nullptr} :
       cubeb_log_set(l, cb)
         => (set_branch(l, cb) # "assert" /\ ctl_pc' \in {"publish", "stop"})]_vars

\* C15, as claimed: in an enabling cubeb_log_set call the new level and the new
\* callback are stored only once the queue is allocated and the drain thread
\* is spawned.
C15_RunnableBeforeObservable ==
  [][/\ (ctl_pc' = "publish" /\ g_cubeb_log_level' # g_cubeb_log_level)
          => (msg_queue # 0 /\ logging_thread)
     /\ (g_cubeb_log_callback' # g_cubeb_log_callback
         /\ g_cubeb_log_callback' \in Callbacks)
          => (msg_queue # 0 /\ logging_thread)]_vars

\* C20, as claimed: no call of cubeb_async_log_reset_threads dereferences an
\* absent queue. The call may come at any time; in every state in which it
\* does not return early (the callback is not null) the queue is present.
C20_ResetThreadsQueuePresent ==
  (ENABLED cubeb_async_log_reset_threads /\ g_cubeb_log_callback # nullptr)
    => msg_queue # 0

\* C17, as claimed: reset_thread_ids runs only while there is no drain thread.
\* It runs in stop() after the join, and in every state in which a call of
\* cubeb_async_log_reset_threads (which may come at any time) finds a callback
\* and a queue.
C17_ResetIdsWhileStopped ==
  /\ ctl_pc = "reset_ids" => (~logging_thread /\ drain_pc = "none")
  /\ (/\ ENABLED cubeb_async_log_reset_threads
      /\ g_cubeb_log_callback # nullptr /\ msg_queue # 0)
       => (~logging_thread /\ drain_pc = "none")

\* C18, as claimed: there are never two drain threads, purge_queue runs only
\* when there is no drain thread, and every step that takes a message out of
\* the queue is either the drain thread's dequeue, made while no purge is in
\* progress, or a purge made while no drain thread exists.
C18_SingleConsumer ==
  /\ [](/\ drain2_pc = "none"
        /\ ctl_pc \in {"purge", "purge2"}
             => (~logging_thread /\ drain_pc = "none"))
  /\ [][(msg_queue' = msg_queue /\ Len(queue') < Len(queue))
          => \/ /\ drain_pc = "dequeue" /\ drain_pc' = "callback"
                /\ logging_thread /\ ctl_pc \notin {"purge", "purge2"}
             \/ /\ ctl_pc \in {"purge", "purge2"}
                /\ drain_pc = "none" /\ ~logging_thread]_vars

\* C19, as claimed: start() is entered only by a stopped logger, the queue is
\* allocated only by start() and released only by stop(), and between
\* cubeb_log_set calls the queue exists exactly when the drain thread does.
C19_Lifecycle ==
  /\ []((Alive /\ ctl_pc = "idle") => (msg_queue # 0 <=> logging_thread))
  /\ [][/\ (ctl_pc = "start" /\ ctl_pc' = "run")
             => (msg_queue = 0 /\ ~logging_thread)
        /\ (msg_queue = 0 /\ msg_queue' # 0) => ctl_pc = "start"
        /\ (msg_queue # 0 /\ msg_queue' = 0) => ctl_pc = "release"]_vars

\* C12: stop() on a stopped logger returns without joining and leaves the
\* queue and the thread handle absent; and every start() that completes,
\* whatever came before it, leaves a newly allocated queue, a spawned drain
\* thread and a cleared shutdown flag.
C12_StopWhenStoppedNoop ==
  [][/\ (ctl_pc = "stop" /\ ~logging_thread /\ ctl_pc' # ctl_pc)
          => /\ ctl_pc' = "publish_noop"
             /\ msg_queue = 0 /\ msg_queue' = 0 /\ queue' = <<>>
             /\ ~logging_thread' /\ drain_pc' = "none"
     /\ (ctl_pc = "run" /\ ctl_pc' = "idle")
          => /\ msg_queue' = qgen /\ msg_queue' # 0
             /\ logging_thread' /\ drain_pc' = "check" /\ ~shutdown_thread'
             /\ \A k \in 1..Len(queue') : queue'[k].run = msg_queue']_vars

\* C12 witness: in a build with asserts, three cubeb_log_set calls have
\* returned of which only the last allocated a queue (the first two were
\* stop() on a stopped logger), and the drain thread has delivered a message
C12_StartAfterTwoStops ==
  /\ ~ndebug /\ Alive /\ ctl_pc = "idle" /\ sets = 3 /\ qgen = 1
  /\ logging_thread /\ invoked.id > 0 /\ invoked.arg = invoked.text

\* the messages in existence: built by a producer, queued, or in the drain
\* thread's hands
Messages ==
  {prod_msg[p] : p \in {q \in Producers : prod_pc[q] = "enqueue"}}
    \cup {queue[k] : k \in 1..Len(queue)}
    \cup (IF drain_pc = "callback" THEN {drain_msg} ELSE {})

\* C13, as claimed: a message constructed from a text of CUBEB_LOG_MESSAGE_MAX_SIZE
\* characters or more holds the empty string, and the callback is given the
\* empty string for it.
C13_OversizeIsEmpty ==
  /\ \A m \in Messages :
       Len(m.text) >= CUBEB_LOG_MESSAGE_MAX_SIZE => m.storage = <<>>
  /\ Len(invoked.text) >= CUBEB_LOG_MESSAGE_MAX_SIZE => invoked.arg = <<>>

\* C14: a message constructed from a text of fewer than
\* CUBEB_LOG_MESSAGE_MAX_SIZE characters holds exactly that text, when it is
\* built, while it is queued, once it is dequeued and when it is handed to the
\* callback.
C14_RoundTrip ==
  /\ \A m \in Messages :
       Len(m.text) < CUBEB_LOG_MESSAGE_MAX_SIZE => m.storage = m.text
  /\ Len(invoked.text) < CUBEB_LOG_MESSAGE_MAX_SIZE => invoked.arg = invoked.text

\* C14 witness: two texts have gone through the queue, the last one delivered
\* filling the buffer exactly
C14_LongestDelivered ==
  /\ Alive /\ pushes = 2 /\ queue = <<>> /\ drain_pc # "callback"
  /\ prod_pc[1] = "idle" /\ invoked.id = 2
  /\ invoked.arg = Fill(CUBEB_LOG_MESSAGE_MAX_SIZE - 1, 1)

\* C11: with the producers pushing concurrently, the callback is handed the
\* text push() was given, which is one of the texts pushed; no message is
\* delivered twice; no more messages are delivered than were pushed; and the
\* messages of one producer are delivered in the order it pushed them.
C11_ConcurrentDelivery ==
  /\ invoked.id > 0
       => /\ invoked.arg = invoked.text
          /\ invoked.text \in {vsnprintf(t) : t \in Texts}
  /\ \A i, j \in 1..Len(delivered) : i < j => delivered[i] # delivered[j]
  /\ Len(delivered) <= pushes
  /\ \A i, j \in 1..Len(delivered) :
       (i < j /\ Producer(delivered[i]) = Producer(delivered[j]))
         => delivered[i] < delivered[j]

\* C11 witness: each producer has had two messages delivered, and the
\* deliveries are not in the order in which the pushes began
C11_Interleaved ==
  /\ Alive
  /\ \A p \in Producers :
       \E i, j \in 1..Len(delivered) :
         i < j /\ Producer(delivered[i]) = p /\ Producer(delivered[j]) = p
  /\ \E i, j \in 1..Len(delivered) :
       i < j /\ delivered[i] % IdBase > delivered[j] % IdBase

====
